---- MODULE Spec2Model ----
(***************************************************************************)
(* A model of JestRunner (src/src/jestRunner.ts): the runner's fields, its *)
(* six public operations cut at their await points, and the test locator   *)
(* they use.                                                               *)
(*                                                                         *)
(* Strings are sequences of atoms.  An atom is a character the string      *)
(* functions look at (a quote, a backslash, a regex metacharacter, a       *)
(* space) or a run of characters none of them looks inside ("jest").       *)
(***************************************************************************)
EXTENDS Integers, Sequences, FiniteSets, TLC

VARIABLES
  config,              \* the JestRunnerConfig handed to the constructor
  previousCommand,     \* JestRunner.previousCommand
  terminal,            \* JestRunner.terminal
  openNativeTerminal,  \* JestRunner.openNativeTerminal
  commands,            \* JestRunner.commands
  nextTerminal,        \* how many terminals createTerminal has made
  inv,                 \* the invocations in flight: position, locals, dispatches
  draining,            \* the event loop is running the queued continuations
  lk                   \* one call of findCurrentTestName on an editor

vars == <<config, previousCommand, terminal, openNativeTerminal, commands,
          nextTerminal, inv, draining, lk>>

runnerVars == <<config, previousCommand, terminal, openNativeTerminal, commands,
                nextTerminal, inv, draining>>

(***************************************************************************)
(* Bounds                                                                  *)
(***************************************************************************)
\* lines of a test file: block ranges lie in 1..MaxLine
MaxLine == 3
\* invocations that may be in flight at once
MaxInFlight == 2
\* terminals the runner may create: its terminal is closed at most
\* MaxTerminals - 1 times
MaxTerminals == 2

(***************************************************************************)
(* Strings                                                                 *)
(***************************************************************************)
\* JavaScript's undefined, where a string is expected
Undefined == <<"undefined">>

\* JavaScript truthiness of string | undefined
Truthy(s) == s # Undefined /\ s # <<>>

RECURSIVE Join(_, _)
\* Array.prototype.join
Join(strs, sep) ==
  IF strs = <<>> THEN <<>>
  ELSE IF Len(strs) = 1 THEN Head(strs)
  ELSE Head(strs) \o sep \o Join(Tail(strs), sep)

RECURSIVE MapAtoms(_, _)
\* String.prototype.replace(/class/g, f): each atom a becomes the string f[a]
MapAtoms(s, f) ==
  IF s = <<>> THEN <<>>
  ELSE (IF Head(s) \in DOMAIN f THEN f[Head(s)] ELSE <<Head(s)>>) \o MapAtoms(Tail(s), f)

IsPrefix(p, s) == Len(p) <= Len(s) /\ SubSeq(s, 1, Len(p)) = p

\* s has t as a contiguous run of atoms
Contains(s, t) == \E i \in 0..(Len(s) - Len(t)) : SubSeq(s, i + 1, i + Len(t)) = t

\* the metacharacters of a regular expression
RegExpSpecial == {".", "*", "+", "?", "^", "$", "(", ")", "[", "]", "{", "}", "|", "\\"}

\* util.escapeRegExp: a backslash before every metacharacter
escapeRegExp(s) == MapAtoms(s, [c \in RegExpSpecial |-> <<"\\", c>>])

\* util.escapeRegExpForPath: as escapeRegExp, for a file path
escapeRegExpForPath(s) == MapAtoms(s, [c \in RegExpSpecial \ {".", "\\"} |-> <<"\\", c>>])

\* util.escapeSingleQuotes: ' becomes '\'' so that it survives single quoting
escapeSingleQuotes(s) == MapAtoms(s, [c \in {"'"} |-> <<"'", "\\", "'", "'">>])

\* util.normalizePath: backslashes become slashes
normalizePath(s) == MapAtoms(s, [c \in {"\\"} |-> <<"/">>])

\* util.quote
quote(s) == <<"'">> \o s \o <<"'">>

\* the quote characters: single quote, double quote, backtick
QuoteChars == {"'", "dquote", "backtick"}

\* util.unquote: one leading and one trailing quote character are dropped
unquote(s) ==
  LET t == IF s # <<>> /\ Head(s) \in QuoteChars THEN Tail(s) ELSE s
  IN IF t # <<>> /\ t[Len(t)] \in QuoteChars THEN SubSeq(t, 1, Len(t) - 1) ELSE t

\* util.updateTestNameIfUsingProperties: the name normalisation of the
\* specification, placeholders become regex wildcards; undefined stays undefined
updateTestNameIfUsingProperties(s) ==
  IF s = Undefined THEN Undefined ELSE MapAtoms(s, [c \in {"%s"} |-> <<"(.*?)">>])

\* util.pushMany
pushMany(arr, items) == arr \o items

RECURSIVE Dedup(_, _)
\* the insertion order of a Set built from a list
Dedup(s, seen) ==
  IF s = <<>> THEN <<>>
  ELSE IF Head(s) \in seen THEN Dedup(Tail(s), seen)
  ELSE <<Head(s)>> \o Dedup(Tail(s), seen \cup {Head(s)})

(***************************************************************************)
(* The test locator                                                        *)
(***************************************************************************)
BlockNames == {<<"Foo">>, <<"bar", ".">>}

RECURSIVE BlockSeqs(_, _, _)
\* The well-formed sibling sequences within lines lo..hi: in source order,
\* ranges disjoint, each block's children within its range. A child spanning
\* its parent's whole range is left out (whole), which bounds the depth.
BlockSeqs(lo, hi, whole) ==
  {<<>>} \cup
  UNION { UNION { UNION { UNION {
      { <<[name |-> n, start |-> s, end |-> e, children |-> c]>> \o rest :
          rest \in BlockSeqs(e + 1, hi, FALSE) }
      : c \in BlockSeqs(s, e, TRUE) }
      : n \in BlockNames }
      : e \in { x \in s..hi : ~(whole /\ s = lo /\ x = hi) } }
      : s \in lo..hi }

\* every block tree of a file of MaxLine lines
AllTrees == BlockSeqs(1, MaxLine, FALSE)

InRange(line, b) == b.start <= line /\ line <= b.end

RECURSIVE findFullTestNameInnermostOnly(_, _)
\* findFullTestName that returns the matched block's own name, without its
\* ancestors'
findFullTestNameInnermostOnly(line, blocks) ==
  IF blocks = <<>> THEN Undefined
  ELSE LET b == Head(blocks) IN
       IF InRange(line, b)
       THEN LET sub == findFullTestNameInnermostOnly(line, b.children) IN
            IF sub = Undefined THEN b.name ELSE sub
       ELSE findFullTestNameInnermostOnly(line, Tail(blocks))

RECURSIVE findFullTestName(_, _)
\* util.findFullTestName(selectedLine, children), the specification's 4.1:
\* depth first, in source order, the first block whose range holds the line
\* wins; its children are searched and the names are joined by one space
findFullTestName(line, blocks) ==
  IF blocks = <<>> THEN Undefined
  ELSE LET b == Head(blocks) IN
       IF InRange(line, b)
       THEN LET sub == findFullTestName(line, b.children) IN
            IF sub = Undefined THEN b.name ELSE b.name \o <<" ">> \o sub
       ELSE findFullTestName(line, Tail(blocks))

\* parser.parse(filePath): the parse tree of the file; a file that does not
\* parse yields the empty tree (the specification's 7)
parse(doc) ==
  IF doc.malformed THEN [root |-> [children |-> <<>>]]
  ELSE [root |-> [children |-> doc.blocks]]

\* line 235 without its + 1
selectedLineOfZeroBased(editor) == editor.line

\* findCurrentTestName, line 235: the editor's lines count from 0
selectedLineOf(editor) == editor.line + 1

\* lines 236-239 falling back on the first block of the file when no block
\* holds the line
fullTestNameOfFirstByDefault(editor) ==
  LET children == parse(editor.doc).root.children
      found == findFullTestName(selectedLineOf(editor), children)
  IN IF found = Undefined /\ children # <<>> THEN children[1].name ELSE found

\* findCurrentTestName, lines 236-239: the located name, before escaping
fullTestNameOf(editor) ==
  findFullTestName(selectedLineOf(editor), parse(editor.doc).root.children)

\* findCurrentTestName with the escaping of line 240 left out
findCurrentTestNameRaw(editor) ==
  IF editor.selection # <<>> THEN unquote(editor.selection)
  ELSE fullTestNameOf(editor)

\* findCurrentTestName without the test of line 240: an absent name is
\* escaped as the text it coerces to
findCurrentTestNameCoerces(editor) ==
  IF editor.selection # <<>> THEN unquote(editor.selection)
  ELSE LET fullTestName == fullTestNameOf(editor)
       IN escapeRegExp(IF fullTestName = Undefined
                       THEN <<"u", "n", "d", "e", "f", "i", "n", "e", "d">>
                       ELSE fullTestName)

\* JestRunner.findCurrentTestName
findCurrentTestName(editor) ==
  IF editor.selection # <<>> THEN unquote(editor.selection)
  ELSE LET fullTestName == fullTestNameOf(editor)
       IN IF Truthy(fullTestName) THEN escapeRegExp(fullTestName) ELSE Undefined

(***************************************************************************)
(* File paths                                                              *)
(***************************************************************************)
RECURSIVE LastIndexOf(_, _)
\* the place of the last atom a of s, 0 when there is none
LastIndexOf(s, a) ==
  IF s = <<>> THEN 0
  ELSE IF s[Len(s)] = a THEN Len(s)
  ELSE LastIndexOf(SubSeq(s, 1, Len(s) - 1), a)

\* util.getDirName: path.dirname
getDirName(p) ==
  LET k == LastIndexOf(p, "/") IN IF k <= 1 THEN <<".">> ELSE SubSeq(p, 1, k - 1)

\* util.getFileName: path.basename
getFileName(p) == SubSeq(p, LastIndexOf(p, "/") + 1, Len(p))

RECURSIVE StripTestSuffix(_)
\* String.prototype.replace(/\.(test|spec)\./, '.'): the first match only
StripTestSuffix(s) ==
  IF Len(s) < 3 THEN s
  ELSE IF s[1] = "." /\ s[2] \in {"test", "spec"} /\ s[3] = "."
       THEN <<".">> \o SubSeq(s, 4, Len(s))
       ELSE <<Head(s)>> \o StripTestSuffix(Tail(s))

(***************************************************************************)
(* The configuration and the editor: the collaborators' answers            *)
(***************************************************************************)
\* config.jestCommand
JestCommand == <<"jest">>
\* config.jestBinPath
JestBinPath == <<"node_modules", "/", "jest", "/", "bin", "/", "jest", ".", "js">>
\* config.cwd
Cwd == <<"/", "ws">>
\* config.runOptions
RunOptions == << <<"--ci">> >>
\* config.debugOptions
DebugOptions == [args |-> << <<"--no-cache">> >>]
\* config.getYarnPnpCommand
YarnPnpCommand == <<"yarn", ".", "cjs">>
\* config.getJestConfigPath(filePath)
getJestConfigPath(filePath) == <<"/", "ws", "/", "jest", ".", "config", ".", "js">>
\* vscode.workspace.getWorkspaceFolder(editor.document.uri).uri.fsPath
WorkspacePath == <<"/", "ws">>
\* editor.document.fileName
FileName == <<"/", "ws", "/", "src", "/", "a", ".", "test", ".", "ts">>

\* the configurations a runner is constructed with
Configs ==
  [isRunInExternalNativeTerminal : BOOLEAN,
   changeDirectoryToWorkspaceRoot : BOOLEAN,
   isYarnPnpSupportEnabled : BOOLEAN]

\* the specification's example: describe("Foo")[1,3] holding test("bar.")[2,2]
ExampleBlocks ==
  << [name |-> <<"Foo">>, start |-> 1, end |-> 3,
      children |-> << [name |-> <<"bar", ".">>, start |-> 2, end |-> 2,
                       children |-> <<>>] >>] >>

\* the documents of the active editor: the example, and a file that does not parse
Docs == {[malformed |-> FALSE, blocks |-> ExampleBlocks],
         [malformed |-> TRUE, blocks |-> <<>>]}

\* the states of the active editor when an operation reads it
Editors ==
  [selection : {<<>>, <<"'", "it", "(", "'">>},
   line : 0..MaxLine,
   doc : Docs]

\* the path argument of runTestsOnPath and debugTestsOnPath
Paths == {<<"/", "ws", "/", "src">>}
\* the argument of runCurrentTest and debugCurrentTest: a test name, or none
TestNameArgs == {Undefined, <<"given", " ", "%s">>}
\* the options argument of runCurrentTest and runCurrentFile
OptionsArgs == {Undefined, << <<"--watch">>, <<"--ci">> >>}

(***************************************************************************)
(* Commands and debug configurations                                       *)
(***************************************************************************)
\* buildJestArgs without the test of line 260: -t is pushed whatever testName is
buildJestArgsAlwaysFilter(workspacePath, filePath, testName, withQuotes, options) ==
  LET quoter(str) == IF withQuotes THEN quote(str) ELSE str
      opts == IF options = Undefined THEN <<>> ELSE options
  IN  <<quoter(escapeRegExpForPath(normalizePath(filePath)))>>
      \o (IF getJestConfigPath(filePath) # <<>>
          THEN << <<"-c">>, quoter(normalizePath(getJestConfigPath(filePath))) >>
          ELSE <<>>)
      \o << <<"-t">>, quoter(escapeSingleQuotes(testName)) >>
      \o (IF workspacePath # <<>>
          THEN << <<"--roots">>, quoter(escapeSingleQuotes(workspacePath)) >>
          ELSE <<>>)
      \o Dedup(opts \o RunOptions, {})

\* JestRunner.buildJestArgs
buildJestArgs(workspacePath, filePath, testName, withQuotes, options) ==
  LET quoter(str) == IF withQuotes THEN quote(str) ELSE str
      opts == IF options = Undefined THEN <<>> ELSE options
  IN  <<quoter(escapeRegExpForPath(normalizePath(filePath)))>>
      \o (IF getJestConfigPath(filePath) # <<>>
          THEN << <<"-c">>, quoter(normalizePath(getJestConfigPath(filePath))) >>
          ELSE <<>>)
      \o (IF Truthy(testName)
          THEN << <<"-t">>, quoter(escapeSingleQuotes(testName)) >>
          ELSE <<>>)
      \o (IF workspacePath # <<>>
          THEN << <<"--roots">>, quoter(escapeSingleQuotes(workspacePath)) >>
          ELSE <<>>)
      \o Dedup(opts \o RunOptions, {})

\* JestRunner.buildJestCommand
buildJestCommand(workspacePath, filePath, testName, options) ==
  JestCommand \o <<" ">>
    \o Join(buildJestArgs(workspacePath, filePath, testName, TRUE, options), <<" ">>)

\* JestRunner.getDebugConfig
getDebugConfig(cfg, workspacePath, filePath, currentTestName) ==
  LET standardArgs == buildJestArgs(workspacePath, filePath, currentTestName, FALSE, Undefined)
      base == IF cfg.isYarnPnpSupportEnabled
              THEN [program |-> <<".yarn", "/", "releases", "/">> \o YarnPnpCommand,
                    args |-> << <<"jest">> >>]
              ELSE [program |-> JestBinPath, args |-> DebugOptions.args]
  IN  [console |-> "integratedTerminal",
       internalConsoleOptions |-> "neverOpen",
       name |-> "Debug Jest Tests",
       program |-> base.program,
       request |-> "launch",
       type |-> "node",
       cwd |-> Cwd,
       args |-> pushMany(base.args, standardArgs) \o << <<"--runInBand">> >>]

\* goToCwd, line 283
cdCommand == <<"cd", " ">> \o quote(Cwd)

\* JestRunner.buildNativeTerminalCommand
buildNativeTerminalCommand(toRun) ==
  <<"ttab -t 'jest-runner' ", "dquote">> \o toRun \o <<"dquote">>

\* runCurrentTest, lines 78-85: the coverage target
coverageTarget(filePath, exists) ==
  LET targetFileDir == getDirName(filePath)
      targetFileName == StripTestSuffix(getFileName(filePath))
  IN  IF exists THEN <<"**", "/">> \o targetFileName
      ELSE <<"**", "/">> \o getFileName(targetFileDir) \o <<"/", "**">>

(***************************************************************************)
(* The runner's state                                                      *)
(***************************************************************************)
Procs == 1..MaxInFlight

NoDebugConfig ==
  [console |-> "", internalConsoleOptions |-> "", name |-> "", program |-> <<>>,
   request |-> "", type |-> "", cwd |-> <<>>, args |-> <<>>]

\* previousCommand: string | DebugCommand, undefined until first assigned
UnsetCommand == [kind |-> "undefined", text |-> <<>>, config |-> NoDebugConfig]
StringCommand(t) == [kind |-> "string", text |-> t, config |-> NoDebugConfig]
DebugCommand(c) == [kind |-> "debug", text |-> <<>>, config |-> c]

\* what sendText is handed when the value is no string
TextOf(cmd) == IF cmd.kind = "string" THEN cmd.text ELSE <<"[object ", cmd.kind, "]">>

NoEditor == [selection |-> <<>>, line |-> 0, doc |-> [malformed |-> FALSE, blocks |-> <<>>]]

\* an invocation slot before its first call
Idle ==
  [pc |-> "idle", op |-> "none", hasEditor |-> FALSE,
   path |-> <<>>, argument |-> Undefined, options |-> Undefined, coverage |-> FALSE,
   parsed |-> "no", fullTestName |-> Undefined,
   testName |-> Undefined, args |-> <<>>, command |-> <<>>,
   debugCommand |-> UnsetCommand, iter |-> <<>>,
   pending |-> <<>>, via |-> "none", cont |-> "none",
   queued |-> <<>>, out |-> <<>>]

\* the record of a call that found an active editor
New(op) == [Idle EXCEPT !.op = op, !.hasEditor = TRUE]

\* whether findCurrentTestName reached parse (line 237), and how parse fared
ParseOutcome(located, editor) ==
  IF ~located THEN "no" ELSE IF editor.doc.malformed THEN "failed" ELSE "ok"

\* a call may start in a slot whose last invocation has returned or thrown
CanCall(i) == inv[i].pc \in {"idle", "done", "error"}

\* a text handed to terminal.sendText, or a configuration handed to startDebugging
Dispatch(via, text, cfg, term) == [via |-> via, text |-> text, config |-> cfg, term |-> term]

LkIdle == [editor |-> NoEditor, called |-> FALSE,
           fullTestName |-> Undefined, result |-> Undefined]

\* the constructor, lines 34-39
Init ==
  /\ config \in Configs
  /\ previousCommand = UnsetCommand
  /\ terminal = 0
  /\ nextTerminal = 0
  /\ openNativeTerminal = config.isRunInExternalNativeTerminal
  /\ commands = <<>>
  /\ inv = [i \in Procs |-> Idle]
  /\ draining = FALSE
  /\ lk = LkIdle

(***************************************************************************)
(* The private methods, as the steps between two awaits                    *)
(***************************************************************************)
\* lines 304-306 and 319-321: the terminal is created when there is none
EnsureTerminal ==
  IF terminal = 0
  THEN terminal' = nextTerminal + 1 /\ nextTerminal' = nextTerminal + 1
  ELSE UNCHANGED <<terminal, nextTerminal>>

\* JestRunner.runTerminalCommand up to its await (or its return, when the
\* command is queued); me is the invocation's record, cont where it goes on
RunTerminalCommand(i, me, command, cont, native) ==
  IF native
  THEN /\ commands' = Append(commands, command)
       /\ inv' = [inv EXCEPT ![i] = [me EXCEPT !.pc = cont,
                                               !.queued = Append(@, command)]]
       /\ UNCHANGED <<terminal, nextTerminal>>
  ELSE /\ EnsureTerminal
       /\ inv' = [inv EXCEPT ![i] = [me EXCEPT !.pc = "send", !.pending = command,
                                               !.via = "runTerminalCommand", !.cont = cont]]
       /\ UNCHANGED commands

\* JestRunner.goToCwd
goToCwd(i, me, cont) ==
  IF config.changeDirectoryToWorkspaceRoot
  THEN RunTerminalCommand(i, me, cdCommand, cont, openNativeTerminal)
  ELSE /\ inv' = [inv EXCEPT ![i] = [me EXCEPT !.pc = cont]]
       /\ UNCHANGED <<commands, terminal, nextTerminal>>

\* executeDebugCommand without its loop: the queue is dropped unsent
ExecuteDebugLoopNoFlush(i, me, dc, iter) ==
  /\ commands' = <<>>
  /\ UNCHANGED <<terminal, nextTerminal>>
  /\ IF dc.kind = "undefined"
     THEN /\ inv' = [inv EXCEPT ![i] = [me EXCEPT !.pc = "error", !.iter = <<>>]]
          /\ UNCHANGED previousCommand
     ELSE /\ inv' = [inv EXCEPT ![i] =
                       [me EXCEPT !.pc = "ext", !.iter = <<>>,
                                  !.out = Append(@, Dispatch("startDebugging", <<>>,
                                                             dc.config, 0))]]
          /\ previousCommand' = dc

\* executeDebugCommand, lines 192-199: the loop over the queue, one iteration
\* up to its await, and past the loop the rest of the method
ExecuteDebugLoop(i, me, dc, iter) ==
  IF iter # <<>>
  THEN /\ RunTerminalCommand(i, [me EXCEPT !.iter = Tail(iter)], Head(iter), "dbgLoop", FALSE)
       /\ UNCHANGED previousCommand
  ELSE /\ commands' = <<>>
       /\ UNCHANGED <<terminal, nextTerminal>>
       /\ IF dc.kind = "undefined"
          THEN \* debugCommand.config of undefined: a TypeError
               /\ inv' = [inv EXCEPT ![i] = [me EXCEPT !.pc = "error", !.iter = <<>>]]
               /\ UNCHANGED previousCommand
          ELSE /\ inv' = [inv EXCEPT ![i] =
                            [me EXCEPT !.pc = "ext", !.iter = <<>>,
                                       !.out = Append(@, Dispatch("startDebugging", <<>>,
                                                                  dc.config, 0))]]
               /\ previousCommand' = dc

(***************************************************************************)
(* Scheduling.  An await of a promise that is already resolved (a command  *)
(* that was only queued, a private method that has returned) resumes as a  *)
(* microtask; an await of the editor (save, the terminal's clear) resumes  *)
(* in a later task.  A task is a call of a public method or such a         *)
(* resumption; several may run before the microtasks do (two calls from    *)
(* one handler, two answers of the editor in one message), and then every  *)
(* queued microtask runs before the next task. The order among the         *)
(* microtasks of different invocations depends on how many ticks each      *)
(* await takes in the build, and is left open.                             *)
(***************************************************************************)
\* the invocation resumes as a microtask
Ready(r) == r.pc \in {"jest", "dbg", "dbgLoop", "ext"}

\* a task (a call, a resumption by the editor) starts when no microtask is
\* left to run
TaskBegins == ~draining

TaskEnds == draining' = FALSE

\* a microtask has run: the event loop goes on with those still queued
MicrotaskEnds == draining' = \E j \in Procs : Ready(inv'[j])

(***************************************************************************)
(* The public methods                                                      *)
(***************************************************************************)
\* a call that finds no active editor returns at once
ReturnsWithoutEditor(i, op) ==
  /\ inv' = [inv EXCEPT ![i] = [New(op) EXCEPT !.pc = "done", !.hasEditor = FALSE]]
  /\ UNCHANGED <<config, previousCommand, terminal, nextTerminal,
                 openNativeTerminal, commands, lk>>

\* a call that awaits editor.document.save() first
AwaitsSave(i, me) ==
  /\ inv' = [inv EXCEPT ![i] = [me EXCEPT !.pc = "save"]]
  /\ UNCHANGED <<config, previousCommand, terminal, nextTerminal,
                 openNativeTerminal, commands, lk>>

\* runTestsOnPath, lines 45-55
runTestsOnPath(i) ==
  /\ TaskBegins
  /\ CanCall(i)
  /\ \E hasEditor \in BOOLEAN, path \in Paths :
       IF ~hasEditor THEN ReturnsWithoutEditor(i, "runTestsOnPath")
       ELSE LET args == buildJestArgs(WorkspacePath, path, Undefined, TRUE, Undefined)
                command == buildJestCommand(WorkspacePath, path, Undefined, Undefined)
                me == [New("runTestsOnPath") EXCEPT !.path = path, !.args = args,
                                                    !.command = command]
            IN /\ previousCommand' = StringCommand(command)
               /\ goToCwd(i, me, "jest")
               /\ UNCHANGED <<config, openNativeTerminal, lk>>
  /\ TaskEnds

\* runCurrentTest, lines 61-72
runCurrentTest(i) ==
  /\ TaskBegins
  /\ CanCall(i)
  /\ \E hasEditor \in BOOLEAN, argument \in TestNameArgs,
        options \in OptionsArgs, collectCoverageFromCurrentFile \in BOOLEAN :
       IF ~hasEditor THEN ReturnsWithoutEditor(i, "runCurrentTest")
       ELSE AwaitsSave(i, [New("runCurrentTest") EXCEPT
                             !.argument = argument, !.options = options,
                             !.coverage = collectCoverageFromCurrentFile])
  /\ TaskEnds

\* runCurrentTest, lines 74-97
runCurrentTestSaved(i) ==
  /\ TaskBegins
  /\ inv[i].pc = "save" /\ inv[i].op = "runCurrentTest"
  /\ \E editor \in Editors, exists \in BOOLEAN :
       LET me0 == inv[i]
           filePath == FileName
       IN IF me0.coverage /\ me0.options = Undefined
          THEN \* finalOptions.push of undefined: a TypeError
               /\ inv' = [inv EXCEPT ![i] = [me0 EXCEPT !.pc = "error"]]
               /\ UNCHANGED <<config, previousCommand, terminal, nextTerminal,
                              openNativeTerminal, commands, lk>>
          ELSE LET finalOptions ==
                     IF me0.coverage
                     THEN me0.options \o << <<"--collectCoverageFrom">>,
                                            quote(coverageTarget(filePath, exists)) >>
                     ELSE me0.options
                   located == ~Truthy(me0.argument) /\ editor.selection = <<>>
                   parsed == ParseOutcome(located, editor)
                   fullTestName == IF located THEN fullTestNameOf(editor) ELSE Undefined
                   testName == IF Truthy(me0.argument) THEN me0.argument
                               ELSE findCurrentTestName(editor)
                   resolvedTestName == updateTestNameIfUsingProperties(testName)
                   args == buildJestArgs(WorkspacePath, filePath, resolvedTestName,
                                         TRUE, finalOptions)
                   command == buildJestCommand(WorkspacePath, filePath, resolvedTestName,
                                               finalOptions)
                   me == [me0 EXCEPT !.parsed = parsed, !.fullTestName = fullTestName,
                                     !.options = finalOptions, !.testName = testName,
                                     !.args = args, !.command = command]
               IN /\ previousCommand' = StringCommand(command)
                  /\ goToCwd(i, me, "jest")
                  /\ UNCHANGED <<config, openNativeTerminal, lk>>
  /\ TaskEnds

\* runCurrentFile, lines 103-109
runCurrentFile(i) ==
  /\ TaskBegins
  /\ CanCall(i)
  /\ \E hasEditor \in BOOLEAN, options \in OptionsArgs :
       IF ~hasEditor THEN ReturnsWithoutEditor(i, "runCurrentFile")
       ELSE AwaitsSave(i, [New("runCurrentFile") EXCEPT !.options = options])
  /\ TaskEnds

\* runCurrentFile, lines 111-116
runCurrentFileSaved(i) ==
  /\ TaskBegins
  /\ inv[i].pc = "save" /\ inv[i].op = "runCurrentFile"
  /\ LET me0 == inv[i]
         args == buildJestArgs(WorkspacePath, FileName, Undefined, TRUE, me0.options)
         command == buildJestCommand(WorkspacePath, FileName, Undefined, me0.options)
         me == [me0 EXCEPT !.args = args, !.command = command]
     IN /\ previousCommand' = StringCommand(command)
        /\ goToCwd(i, me, "jest")
        /\ UNCHANGED <<config, openNativeTerminal, lk>>
  /\ TaskEnds

\* runPreviousTest, lines 122-128
runPreviousTest(i) ==
  /\ TaskBegins
  /\ CanCall(i)
  /\ \E hasEditor \in BOOLEAN :
       IF ~hasEditor THEN ReturnsWithoutEditor(i, "runPreviousTest")
       ELSE AwaitsSave(i, New("runPreviousTest"))
  /\ TaskEnds

\* runPreviousTest, lines 130-135, and executeDebugCommand up to its first await
runPreviousTestSaved(i) ==
  /\ TaskBegins
  /\ inv[i].pc = "save" /\ inv[i].op = "runPreviousTest"
  /\ IF previousCommand.kind = "string"
     THEN /\ goToCwd(i, inv[i], "jest")
          /\ UNCHANGED <<config, previousCommand, openNativeTerminal, lk>>
     ELSE /\ openNativeTerminal' = FALSE
          /\ ExecuteDebugLoop(i, [inv[i] EXCEPT !.debugCommand = previousCommand],
                              previousCommand, commands)
          /\ UNCHANGED <<config, lk>>
  /\ TaskEnds

\* debugTestsOnPath, lines 140-148
debugTestsOnPath(i) ==
  /\ TaskBegins
  /\ CanCall(i)
  /\ \E hasEditor \in BOOLEAN, path \in Paths :
       IF ~hasEditor THEN ReturnsWithoutEditor(i, "debugTestsOnPath")
       ELSE LET debugConfig == getDebugConfig(config, WorkspacePath, path, Undefined)
                me == [New("debugTestsOnPath") EXCEPT
                         !.path = path, !.args = debugConfig.args,
                         !.debugCommand = DebugCommand(debugConfig)]
            IN /\ goToCwd(i, me, "dbg")
               /\ UNCHANGED <<config, previousCommand, openNativeTerminal, lk>>
  /\ TaskEnds

\* debugCurrentTest, lines 157-163
debugCurrentTest(i) ==
  /\ TaskBegins
  /\ CanCall(i)
  /\ \E hasEditor \in BOOLEAN, currentTestName \in TestNameArgs :
       IF ~hasEditor THEN ReturnsWithoutEditor(i, "debugCurrentTest")
       ELSE AwaitsSave(i, [New("debugCurrentTest") EXCEPT !.argument = currentTestName])
  /\ TaskEnds

\* debugCurrentTest, lines 165-170
debugCurrentTestSaved(i) ==
  /\ TaskBegins
  /\ inv[i].pc = "save" /\ inv[i].op = "debugCurrentTest"
  /\ \E editor \in Editors :
       LET me0 == inv[i]
           located == ~Truthy(me0.argument) /\ editor.selection = <<>>
           parsed == ParseOutcome(located, editor)
           fullTestName == IF located THEN fullTestNameOf(editor) ELSE Undefined
           testName == IF Truthy(me0.argument) THEN me0.argument
                       ELSE findCurrentTestName(editor)
           resolvedTestName == updateTestNameIfUsingProperties(testName)
           debugConfig == getDebugConfig(config, WorkspacePath, FileName, resolvedTestName)
           me == [me0 EXCEPT !.parsed = parsed, !.fullTestName = fullTestName,
                             !.testName = testName, !.args = debugConfig.args,
                             !.debugCommand = DebugCommand(debugConfig)]
       IN /\ goToCwd(i, me, "dbg")
          /\ UNCHANGED <<config, previousCommand, openNativeTerminal, lk>>
  /\ TaskEnds

(***************************************************************************)
(* The continuations after an await                                        *)
(***************************************************************************)
\* runJestCommand with line 132 handing over the invocation's own command
\* (none, for runPreviousTest) in place of this.previousCommand
runJestCommandOwn(i) ==
  /\ inv[i].pc = "jest"
  /\ RunTerminalCommand(i, inv[i], inv[i].command, "ext", openNativeTerminal)
  /\ UNCHANGED <<config, previousCommand, openNativeTerminal, lk>>
  /\ MicrotaskEnds

\* lines 56, 98, 117 and 132: runTerminalCommand(command), after goToCwd
runJestCommand(i) ==
  /\ inv[i].pc = "jest"
  /\ LET command == IF inv[i].op = "runPreviousTest" THEN TextOf(previousCommand)
                    ELSE inv[i].command
     IN RunTerminalCommand(i, inv[i], command, "ext", openNativeTerminal)
  /\ UNCHANGED <<config, previousCommand, openNativeTerminal, lk>>
  /\ MicrotaskEnds

\* lines 149 and 171: executeDebugCommand, after goToCwd, up to its first await
executeDebugCommand(i) ==
  /\ inv[i].pc = "dbg"
  /\ openNativeTerminal' = FALSE
  /\ ExecuteDebugLoop(i, inv[i], inv[i].debugCommand, commands)
  /\ UNCHANGED <<config, lk>>
  /\ MicrotaskEnds

\* executeDebugCommand, lines 192-199, after the await of line 193
executeDebugCommandLoop(i) ==
  /\ inv[i].pc = "dbgLoop"
  /\ ExecuteDebugLoop(i, inv[i], inv[i].debugCommand, inv[i].iter)
  /\ UNCHANGED <<config, openNativeTerminal, lk>>
  /\ MicrotaskEnds

\* JestRunner.runExternalNativeTerminalCommand(this.commands), up to its await
runExternalNativeTerminalCommand(i) ==
  /\ inv[i].pc = "ext"
  /\ IF ~openNativeTerminal
     THEN /\ commands' = <<>>
          /\ inv' = [inv EXCEPT ![i].pc = "done"]
          /\ UNCHANGED <<terminal, nextTerminal>>
     ELSE LET command == Join(commands, <<";", " ">>)
              externalCommand == buildNativeTerminalCommand(command)
          IN /\ commands' = <<>>
             /\ EnsureTerminal
             /\ inv' = [inv EXCEPT ![i].pc = "send", ![i].pending = externalCommand,
                                   ![i].via = "runExternalNativeTerminalCommand",
                                   ![i].cont = "done"]
  /\ UNCHANGED <<config, previousCommand, openNativeTerminal, lk>>
  /\ MicrotaskEnds

\* lines 310 and 324: this.terminal.sendText, after the await of the clear
sendText(i) ==
  /\ TaskBegins
  /\ inv[i].pc = "send"
  /\ IF terminal = 0
     THEN \* sendText of null: a TypeError
          inv' = [inv EXCEPT ![i].pc = "error"]
     ELSE inv' = [inv EXCEPT ![i].pc = inv[i].cont,
                             ![i].out = Append(@, Dispatch(inv[i].via, inv[i].pending,
                                                           NoDebugConfig, terminal))]
  /\ UNCHANGED <<config, previousCommand, terminal, nextTerminal,
                 openNativeTerminal, commands, lk>>
  /\ TaskEnds

\* one step of the invocation in slot i
Step(i) ==
  \/ runTestsOnPath(i)
  \/ runCurrentTest(i)
  \/ runCurrentTestSaved(i)
  \/ runCurrentFile(i)
  \/ runCurrentFileSaved(i)
  \/ runPreviousTest(i)
  \/ runPreviousTestSaved(i)
  \/ debugTestsOnPath(i)
  \/ debugCurrentTest(i)
  \/ debugCurrentTestSaved(i)
  \/ runJestCommand(i)
  \/ executeDebugCommand(i)
  \/ executeDebugCommandLoop(i)
  \/ runExternalNativeTerminalCommand(i)
  \/ sendText(i)

\* The operations that differ in how they dispatch (the two on the current
\* test dispatch as runCurrentFile and debugTestsOnPath do)
StepOverlap(i) ==
  \/ runTestsOnPath(i)
  \/ runCurrentFile(i)
  \/ runCurrentFileSaved(i)
  \/ runPreviousTest(i)
  \/ runPreviousTestSaved(i)
  \/ debugTestsOnPath(i)
  \/ runJestCommand(i)
  \/ executeDebugCommand(i)
  \/ executeDebugCommandLoop(i)
  \/ runExternalNativeTerminalCommand(i)
  \/ sendText(i)

\* The editor commands one after the other: a command is invoked when the one
\* before it has returned.
Next == Step(1)

Spec == Init /\ [][Next]_vars

\* a runner configured for the external native terminal
InitOverlap ==
  /\ Init
  /\ config.isRunInExternalNativeTerminal
  /\ ~config.isYarnPnpSupportEnabled

\* The editor commands overlapping: a command may be invoked while others are
\* suspended at an await.
NextOverlap == \E i \in Procs : StepOverlap(i)

SpecOverlap == InitOverlap /\ [][NextOverlap]_vars

(***************************************************************************)
(* Terminals closing while the commands run                                *)
(***************************************************************************)
\* a terminal of the window that the runner did not create
ForeignTerminal == MaxTerminals + 1

\* the terminals that can close: the runner's, if it has one, and another
OpenTerminals == (IF terminal # 0 THEN {terminal} ELSE {}) \cup {ForeignTerminal}

\* setup, lines 328-332: the handler of onDidCloseTerminal
onDidCloseTerminal ==
  /\ TaskBegins
  /\ \E closedTerminal \in OpenTerminals :
       /\ closedTerminal = terminal => nextTerminal < MaxTerminals
       /\ terminal' = IF terminal = closedTerminal THEN 0 ELSE terminal
  /\ UNCHANGED <<config, previousCommand, openNativeTerminal, commands,
                 nextTerminal, inv, lk>>
  /\ TaskEnds

\* The editor commands one after the other, and terminals closing at any
\* point between two steps of a command.
NextClose == Step(1) \/ onDidCloseTerminal

SpecClose == Init /\ [][NextClose]_vars

(***************************************************************************)
(* The locator on its own: findCurrentTestName on every well-formed tree   *)
(***************************************************************************)
\* the editors the locator is called on: an empty selection, the cursor on a
\* line of the file or on the line after its last block
LocatorEditors ==
  [selection : {<<>>},
   line : 0..MaxLine,
   doc : [malformed : {FALSE}, blocks : AllTrees]]

InitLocator ==
  /\ config = [isRunInExternalNativeTerminal |-> FALSE,
               changeDirectoryToWorkspaceRoot |-> FALSE,
               isYarnPnpSupportEnabled |-> FALSE]
  /\ previousCommand = UnsetCommand
  /\ terminal = 0
  /\ nextTerminal = 0
  /\ openNativeTerminal = config.isRunInExternalNativeTerminal
  /\ commands = <<>>
  /\ inv = [i \in Procs |-> Idle]
  /\ draining = FALSE
  /\ lk \in [editor : LocatorEditors, called : {FALSE},
             fullTestName : {Undefined}, result : {Undefined}]

\* findCurrentTestName(editor), lines 228-241
Locate ==
  /\ ~lk.called
  /\ lk' = [lk EXCEPT !.called = TRUE,
                      !.fullTestName = fullTestNameOf(lk.editor),
                      !.result = findCurrentTestName(lk.editor)]
  /\ UNCHANGED runnerVars

NextLocator == Locate

SpecLocator == InitLocator /\ [][NextLocator]_vars

(***************************************************************************)
(* What the locator is to find, stated on the tree                         *)
(***************************************************************************)
RECURSIVE Chains(_)
\* the chains of blocks from a top-level block down to some block
Chains(blocks) ==
  UNION { {<<blocks[k]>>} \cup { <<blocks[k]>> \o c : c \in Chains(blocks[k].children) }
          : k \in DOMAIN blocks }

\* the fully-qualified name of the last block of a chain
QualifiedName(chain) == Join([k \in DOMAIN chain |-> chain[k].name], <<" ">>)

\* the line lies in the chain's last block and in none of that block's children
Innermost(line, chain) ==
  LET b == chain[Len(chain)]
  IN InRange(line, b) /\ \A k \in DOMAIN b.children : ~InRange(line, b.children[k])

\* the 1-based line the cursor of the located editor is on
CursorLine == lk.editor.line + 1

LocatedBlocks == lk.editor.doc.blocks

\* C1: once the locator has run, for every block whose range holds the cursor
\* line while none of its children's does, the located name is exactly that
\* block's fully-qualified name (a group block included).
C1_InnermostBlock ==
  lk.called =>
    \A chain \in Chains(LocatedBlocks) :
      Innermost(CursorLine, chain) => lk.fullTestName = QualifiedName(chain)

\* the cursor is in a group block but in none of its children, and was located
C1_Witness ==
  /\ lk.called
  /\ \E chain \in Chains(LocatedBlocks) :
       /\ Innermost(CursorLine, chain)
       /\ chain[Len(chain)].children # <<>>
       /\ Len(chain) = 2
       /\ lk.fullTestName = QualifiedName(chain)

\* C2: once the locator has run, a cursor line inside no block's range (between
\* two top-level siblings, say) yields no match.
C2_NoMatchOutside ==
  lk.called =>
    ((\A chain \in Chains(LocatedBlocks) : ~InRange(CursorLine, chain[Len(chain)]))
       => lk.fullTestName = Undefined /\ lk.result = Undefined)

\* the cursor is between two top-level siblings, and nothing was located
C2_Witness ==
  /\ lk.called
  /\ Len(LocatedBlocks) = 2
  /\ LocatedBlocks[1].end < CursorLine
  /\ CursorLine < LocatedBlocks[2].start
  /\ lk.fullTestName = Undefined

\* C3: once the locator has run, for every chain of nested blocks whose last
\* block holds the cursor line, the located name starts with the chain's names
\* in outer-to-inner order joined by single spaces, goes on (if at all) with a
\* space, and is as a whole the joined names of one such chain.
C3_NameChain ==
  lk.called =>
    LET holding == { c \in Chains(LocatedBlocks) : InRange(CursorLine, c[Len(c)]) }
    IN  /\ \A c \in holding :
             /\ IsPrefix(QualifiedName(c), lk.fullTestName)
             /\ Len(lk.fullTestName) > Len(QualifiedName(c))
                  => lk.fullTestName[Len(QualifiedName(c)) + 1] = " "
        /\ holding # {} =>
             \E c \in holding :
               /\ lk.fullTestName = QualifiedName(c)
               /\ \A d \in holding : Len(d) <= Len(c)

\* a block B holds a child C that holds the cursor line, and both were named
C3_Witness ==
  /\ lk.called
  /\ \E c \in Chains(LocatedBlocks) :
       /\ Len(c) = 3
       /\ InRange(CursorLine, c[3])
       /\ c[1].name # c[2].name
       /\ lk.fullTestName = c[1].name \o <<" ">> \o c[2].name \o <<" ">> \o c[3].name

(***************************************************************************)
(* What an invocation built and dispatched                                 *)
(***************************************************************************)
CurrentTestOps == {"runCurrentTest", "debugCurrentTest"}
RunOps == {"runTestsOnPath", "runCurrentTest", "runCurrentFile"}
DebugOps == {"debugTestsOnPath", "debugCurrentTest"}

\* the arguments hold a test filter
HasFilter(args) == \E k \in DOMAIN args : args[k] = <<"-t">>

\* the value of the test filter
FilterValue(args) ==
  LET k == CHOOSE k \in DOMAIN args : args[k] = <<"-t">>
  IN IF k + 1 \in DOMAIN args THEN args[k + 1] ELSE Undefined

\* the invocation sent the text to the terminal, alone or within a ttab command
SentCommand(i, text) ==
  \E k \in DOMAIN inv[i].out :
    /\ inv[i].out[k].via # "startDebugging"
    /\ Contains(inv[i].out[k].text, text)

\* the invocation started the debugger with the configuration
StartedDebugging(i, cfg) ==
  \E k \in DOMAIN inv[i].out :
    inv[i].out[k].via = "startDebugging" /\ inv[i].out[k].config = cfg

\* the locator ran for the invocation (no test name passed, empty selection)
\* and found no block
NoMatch(i) ==
  /\ inv[i].op \in CurrentTestOps
  /\ inv[i].parsed # "no"
  /\ inv[i].fullTestName = Undefined

\* the invocation has dispatched its command text or its debug configuration
DispatchedOwn(i) ==
  IF inv[i].op = "runCurrentTest"
  THEN SentCommand(i, inv[i].command)
  ELSE StartedDebugging(i, inv[i].debugCommand.config)

\* C4 as stated: with no match, runCurrentTest and debugCurrentTest build no
\* test filter and the arguments runCurrentFile builds for the file and options.
C4_SameArgumentsAsRunCurrentFile ==
  \A i \in Procs :
    NoMatch(i) =>
      /\ ~HasFilter(inv[i].args)
      /\ inv[i].args = buildJestArgs(WorkspacePath, FileName, Undefined, TRUE, inv[i].options)

\* C4, amended: with no match the arguments hold no test filter;
\* runCurrentTest's command is the one runCurrentFile builds for the file and
\* the final options; debugCurrentTest's configuration is the whole-file debug
\* configuration (the arguments unquoted, after the debug options' and before
\* --runInBand), the one debugTestsOnPath builds for the file; and that is what
\* a returned invocation has dispatched.
C4_WholeFileFallback ==
  \A i \in Procs :
    NoMatch(i) =>
      /\ ~HasFilter(inv[i].args)
      /\ inv[i].op = "runCurrentTest" =>
           /\ inv[i].args = buildJestArgs(WorkspacePath, FileName, Undefined, TRUE,
                                          inv[i].options)
           /\ inv[i].command = buildJestCommand(WorkspacePath, FileName, Undefined,
                                                inv[i].options)
      /\ inv[i].op = "debugCurrentTest" =>
           /\ inv[i].debugCommand.config
                = getDebugConfig(config, WorkspacePath, FileName, Undefined)
           /\ inv[i].args
                = (IF config.isYarnPnpSupportEnabled THEN << <<"jest">> >>
                   ELSE DebugOptions.args)
                  \o buildJestArgs(WorkspacePath, FileName, Undefined, FALSE, Undefined)
                  \o << <<"--runInBand">> >>
      /\ inv[i].pc = "done" => DispatchedOwn(i)

\* a debugCurrentTest with the cursor outside every block has returned, the
\* whole-file debug configuration started and remembered
C4_Witness ==
  /\ NoMatch(1)
  /\ inv[1].pc = "done"
  /\ inv[1].op = "debugCurrentTest"
  /\ DispatchedOwn(1)
  /\ previousCommand.kind = "debug"

\* C5: an invocation whose parse of the current file failed never ends in an
\* error, can always take its next step until it returns, builds no test
\* filter but the file's path, and has dispatched that whole-file run when it
\* returns.
C5_ParseFailureFallsBack ==
  \A i \in Procs :
    inv[i].parsed = "failed" =>
      /\ inv[i].pc # "error"
      /\ inv[i].pc # "done" => ENABLED Step(i)
      /\ ~HasFilter(inv[i].args)
      /\ \E k \in DOMAIN inv[i].args :
           inv[i].args[k] \in {FileName, quote(FileName)}
      /\ inv[i].pc = "done" => DispatchedOwn(i)

\* a runCurrentTest on a file that does not parse has returned, its whole-file
\* command sent
C5_Witness ==
  /\ inv[1].parsed = "failed"
  /\ inv[1].op = "runCurrentTest"
  /\ inv[1].pc = "done"
  /\ SentCommand(1, inv[1].command)

\* the test filter built from a located name
EscapedFilter(i) ==
  LET v == escapeSingleQuotes(updateTestNameIfUsingProperties(
             escapeRegExp(inv[i].fullTestName)))
  IN IF inv[i].op = "runCurrentTest" THEN quote(v) ELSE v

\* the test filter that would be built from the located name unescaped
RawFilter(i) ==
  LET v == escapeSingleQuotes(updateTestNameIfUsingProperties(inv[i].fullTestName))
  IN IF inv[i].op = "runCurrentTest" THEN quote(v) ELSE v

\* C6: when the test name comes from the locator, the -t value of the
\* arguments is built from escapeRegExp of the located name, not from the name
\* itself, and so is the -t value of the command text sent or of the debug
\* configuration started.
C6_FilterIsEscaped ==
  \A i \in Procs :
    (inv[i].op \in CurrentTestOps /\ inv[i].parsed = "ok" /\ Truthy(inv[i].fullTestName)) =>
      /\ HasFilter(inv[i].args)
      /\ FilterValue(inv[i].args) = EscapedFilter(i)
      /\ escapeRegExp(inv[i].fullTestName) # inv[i].fullTestName
           => FilterValue(inv[i].args) # RawFilter(i)
      /\ inv[i].pc = "done" =>
           IF inv[i].op = "runCurrentTest"
           THEN SentCommand(i, <<"-t", " ">> \o EscapedFilter(i) \o <<" ">>)
           ELSE \E k \in DOMAIN inv[i].out :
                  /\ inv[i].out[k].via = "startDebugging"
                  /\ HasFilter(inv[i].out[k].config.args)
                  /\ FilterValue(inv[i].out[k].config.args) = EscapedFilter(i)

\* a located name with a regex metacharacter has been sent, escaped
C6_Witness ==
  /\ inv[1].op = "runCurrentTest"
  /\ inv[1].parsed = "ok"
  /\ inv[1].fullTestName = <<"Foo", " ", "bar", ".">>
  /\ inv[1].pc = "done"
  /\ SentCommand(1, <<"-t", " ", "'", "Foo", " ", "bar", "\\", ".", "'">>)

(***************************************************************************)
(* Dispatch: the terminal, the external native terminal, the debugger      *)
(***************************************************************************)
\* what an invocation dispatched, without the terminal handles
Outputs(i) ==
  [k \in DOMAIN inv[i].out |->
     [via |-> inv[i].out[k].via, text |-> inv[i].out[k].text,
      config |-> inv[i].out[k].config]]

Sent(via, text) == [via |-> via, text |-> text, config |-> NoDebugConfig]

\* what the invocation's inputs and the configuration make a fresh JestRunner
\* dispatch
FreshOutputs(i) ==
  LET me == inv[i]
      cd == IF config.changeDirectoryToWorkspaceRoot THEN <<cdCommand>> ELSE <<>>
  IN  IF ~me.hasEditor THEN <<>>
      ELSE IF me.op \in RunOps
      THEN IF config.isRunInExternalNativeTerminal
           THEN << Sent("runExternalNativeTerminalCommand",
                        buildNativeTerminalCommand(
                          Join(cd \o <<me.command>>, <<";", " ">>))) >>
           ELSE [k \in DOMAIN (cd \o <<me.command>>) |->
                   Sent("runTerminalCommand", (cd \o <<me.command>>)[k])]
      ELSE [k \in DOMAIN cd |-> Sent("runTerminalCommand", cd[k])]
           \o << [via |-> "startDebugging", text |-> <<>>,
                  config |-> me.debugCommand.config] >>

\* C7 as stated: what a returned run or debug operation other than
\* runPreviousTest has dispatched is what a fresh JestRunner dispatches for the
\* same inputs and configuration.
C7_IndependentOfHistory ==
  \A i \in Procs :
    (inv[i].pc = "done" /\ inv[i].op # "runPreviousTest") => Outputs(i) = FreshOutputs(i)

\* C8 as stated: in external-native-terminal mode, every ttab command an
\* invocation sends wraps exactly the commands that invocation queued, in its
\* order, and an invocation that queued commands and returned has sent one.
C8_OwnBatch ==
  openNativeTerminal =>
  \A i \in Procs :
    /\ \A k \in DOMAIN inv[i].out :
         inv[i].out[k].via = "runExternalNativeTerminalCommand" =>
           inv[i].out[k].text
             = buildNativeTerminalCommand(Join(inv[i].queued, <<";", " ">>))
    /\ (inv[i].pc = "done" /\ inv[i].queued # <<>>) =>
         \E k \in DOMAIN inv[i].out :
           inv[i].out[k].via = "runExternalNativeTerminalCommand"

\* the invocation ran a string command: a run operation, or runPreviousTest
\* replaying one
RanStringCommand(i) ==
  /\ inv[i].hasEditor
  /\ \/ inv[i].op \in RunOps
     \/ inv[i].op = "runPreviousTest" /\ inv[i].debugCommand.kind = "undefined"

\* C9 as stated: configured for the external native terminal, a returned run
\* operation has sent exactly one text, the ttab command wrapping the commands
\* it queued.
C9_ExternalBatchOnly ==
  config.isRunInExternalNativeTerminal =>
    \A i \in Procs :
      (inv[i].pc = "done" /\ RanStringCommand(i)) =>
        /\ Len(inv[i].out) = 1
        /\ inv[i].out[1].via = "runExternalNativeTerminalCommand"
        /\ inv[i].queued # <<>>
        /\ inv[i].out[1].text
             = buildNativeTerminalCommand(Join(inv[i].queued, <<";", " ">>))

\* the invocation is a debug operation: a debug method, or runPreviousTest
\* replaying a debug command
IsDebug(i) ==
  /\ inv[i].hasEditor
  /\ \/ inv[i].op \in DebugOps
     \/ inv[i].op = "runPreviousTest" /\ inv[i].debugCommand.kind = "debug"

\* C10: a debug operation never sends a ttab command; when it has started the
\* debugger, the commands it queued were sent to the terminal one by one, in
\* queue order, right before; the queue is empty when executeDebugCommand has
\* returned; and a returned debug operation has started the debugger.
C10_DebugNeverExternal ==
  \A i \in Procs :
    IsDebug(i) =>
      LET me == inv[i]
          n == Len(me.queued)
      IN  /\ \A k \in DOMAIN me.out : me.out[k].via # "runExternalNativeTerminalCommand"
          /\ me.pc = "send" => me.via # "runExternalNativeTerminalCommand"
          /\ \A k \in DOMAIN me.out :
               me.out[k].via = "startDebugging" =>
                 /\ k > n
                 /\ \A j \in 1..n :
                      /\ me.out[k - n + j - 1].via = "runTerminalCommand"
                      /\ me.out[k - n + j - 1].text = me.queued[j]
          /\ me.pc \in {"ext", "done"} =>
               /\ \E k \in DOMAIN me.out : me.out[k].via = "startDebugging"
               /\ commands = <<>>
               /\ ~openNativeTerminal

\* configured for the external native terminal, a debug operation queued its cd
\* command, sent it to the terminal, started the debugger and returned
C10_Witness ==
  /\ config.isRunInExternalNativeTerminal
  /\ IsDebug(1)
  /\ inv[1].pc = "done"
  /\ inv[1].queued = <<cdCommand>>
  /\ Len(inv[1].out) = 2
  /\ inv[1].out[1].via = "runTerminalCommand"
  /\ inv[1].out[1].text = cdCommand
  /\ inv[1].out[2].via = "startDebugging"

(***************************************************************************)
(* runPreviousTest                                                         *)
(***************************************************************************)
\* the dispatches of the invocation that carry the text, alone or within a
\* ttab command
SendsOf(i, text) ==
  { k \in DOMAIN inv[i].out :
      inv[i].out[k].via # "startDebugging" /\ Contains(inv[i].out[k].text, text) }

\* the debugger starts of the invocation
DebugStartsOf(i) ==
  { k \in DOMAIN inv[i].out : inv[i].out[k].via = "startDebugging" }

\* the invocation has dispatched the remembered command, once: a string
\* command sent to the terminal and no debugger started, or the debugger
\* started with the remembered configuration
Replayed(i) ==
  IF previousCommand.kind = "string"
  THEN /\ Cardinality(SendsOf(i, previousCommand.text)) = 1
       /\ DebugStartsOf(i) = {}
  ELSE /\ Cardinality(DebugStartsOf(i)) = 1
       /\ StartedDebugging(i, previousCommand.config)

\* the command the invocation of a run or debug operation built
OwnCommand(i) ==
  IF inv[i].op \in RunOps THEN StringCommand(inv[i].command) ELSE inv[i].debugCommand

\* C11: when a run or debug operation with an active editor returns, the
\* command it built and dispatched is the one remembered; every step of a
\* runPreviousTest that finds a command remembered leaves the remembered
\* command as it is, and when the invocation returns it has dispatched that
\* command: the remembered string sent to the terminal again, or a debug
\* session started with the remembered configuration.
C11_ReplaysRecorded ==
  [][\A i \in Procs :
       /\ (/\ inv'[i] # inv[i]
           /\ inv'[i].op \in RunOps \cup DebugOps
           /\ inv'[i].hasEditor
           /\ inv'[i].pc = "done") =>
            /\ previousCommand' = OwnCommand(i)'
            /\ Replayed(i)'
       /\ (/\ inv'[i] # inv[i]
           /\ inv'[i].op = "runPreviousTest"
           /\ inv'[i].hasEditor
           /\ previousCommand.kind # "undefined") =>
            /\ previousCommand' = previousCommand
            /\ inv'[i].pc # "error"
            /\ inv'[i].pc = "done" => Replayed(i)']_vars

\* a runPreviousTest after a debug operation has returned, the debugger
\* started with the remembered configuration, which is still remembered
C11_Witness ==
  /\ inv[1].op = "runPreviousTest"
  /\ inv[1].hasEditor
  /\ inv[1].pc = "done"
  /\ previousCommand.kind = "debug"
  /\ inv[1].debugCommand = previousCommand
  /\ StartedDebugging(1, previousCommand.config)

\* C12 as stated: every step of a runPreviousTest that finds no command
\* remembered ends in no error, dispatches nothing to the terminal or the
\* debugger, and leaves the mode flag, the queue and the remembered command
\* as they are.
C12_UnsetReplayIsNoop ==
  [][\A i \in Procs :
       (/\ inv'[i] # inv[i]
        /\ inv'[i].op = "runPreviousTest"
        /\ inv'[i].hasEditor
        /\ previousCommand.kind = "undefined") =>
         /\ inv'[i].pc # "error"
         /\ inv'[i].pc # "send"
         /\ inv'[i].out = <<>>
         /\ UNCHANGED <<openNativeTerminal, commands, previousCommand>>]_vars

(***************************************************************************)
(* goToCwd                                                                 *)
(***************************************************************************)
\* the k-th dispatch of the invocation carries a jest command, alone or within
\* a ttab command, or starts the debugger
RunsJest(i, k) ==
  \/ inv[i].out[k].via = "startDebugging"
  \/ Contains(inv[i].out[k].text, JestCommand \o <<" ">>)

\* the k-th dispatch of the invocation carries the cd command
SendsCd(i, k) ==
  /\ inv[i].out[k].via # "startDebugging"
  /\ Contains(inv[i].out[k].text, cdCommand)

\* the cd command went out before what the k-th dispatch runs: in an earlier
\* dispatch, or in front of it in the same ttab command
CdPrecedes(i, k) ==
  \/ \E j \in 1..(k - 1) : SendsCd(i, j)
  \/ /\ inv[i].out[k].via = "runExternalNativeTerminalCommand"
     /\ Contains(inv[i].out[k].text,
                 <<"dquote">> \o cdCommand \o <<";", " ">> \o JestCommand \o <<" ">>)

\* C13 as stated: with changeDirectoryToWorkspaceRoot enabled, in every
\* invocation (runPreviousTest replaying a string or a debug command included)
\* the cd command is dispatched before each jest command and each start of
\* the debugger; with it disabled no cd command is dispatched.
C13_CdPrecedes ==
  \A i \in Procs : \A k \in DOMAIN inv[i].out :
    IF config.changeDirectoryToWorkspaceRoot
    THEN RunsJest(i, k) => CdPrecedes(i, k)
    ELSE ~SendsCd(i, k)

(***************************************************************************)
(* The terminal                                                            *)
(***************************************************************************)
\* C14 as stated: every sendText (lines 310 and 324) is applied to a terminal
\* handle that is not null and not closed, the one the runner created last:
\* the invocation does not end in an error there, and the text goes to that
\* terminal, a fresh one when the runner's terminal was closed before the
\* dispatch.
C14_SendsToOpenTerminal ==
  [][\A i \in Procs :
       (inv[i].pc = "send" /\ inv'[i].pc # "send") =>
         /\ terminal # 0
         /\ inv'[i].pc # "error"
         /\ Len(inv'[i].out) = Len(inv[i].out) + 1
         /\ inv'[i].out[Len(inv'[i].out)].term = terminal
         /\ terminal = nextTerminal]_vars

====
